---- MODULE Spec2Model ----
(***************************************************************************)
(* The puzzle engine of NeonSudoku (src/App.tsx, lines 513-612): the       *)
(* constraint checker isValid, the backtracking solver solveSudoku, the    *)
(* solution counter countSolutions and the generator generateSudoku.       *)
(*                                                                         *)
(* The two recursive searches are modelled step by step with an explicit   *)
(* call stack: one frame per activation, holding the cell the activation   *)
(* branches on and the candidate value its for-loop has reached.           *)
(*                                                                         *)
(* The game component App that plays the generated puzzle, in its two      *)
(* revisions: src/App.tsx (lines 25-200) and src/unnamed/part_000 (lines   *)
(* 64-254). Each event handler is one action; the win-detection effect     *)
(* that React runs after a render with a new board is part of the action   *)
(* that produced the board.                                                *)
(***************************************************************************)
EXTENDS Integers, Sequences, FiniteSets, TLC

VARIABLES
    pc,             \* where the running call is (see the actions)
    difficulty,     \* generateSudoku's parameter
    board,          \* generateSudoku's board; the grid solveSudoku works on
    solution,       \* generateSudoku's solution
    puzzle,         \* generateSudoku's puzzle
    attempts,       \* generateSudoku's removal counter
    cellsToRemove,  \* generateSudoku's target
    seedIdx,        \* position of the seeding loops (i, j, k) as one index
    trial,          \* the removal trial in progress: r, c, temp
    b,              \* the grid countSolutions' inner solve works on
    count,          \* countSolutions' counter
    stack,          \* activations of solveSudoku / of countSolutions' solve
    phase,          \* where the search is: "loop", "back" or "ret"
    ret,            \* value returned by the last finished solveSudoku call
    rng,            \* state of the random source behind Math.random
    gameState,          \* App's gameState, NoGame while it is null
    isNewGameModalOpen, \* App's isNewGameModalOpen
    showConfirmReset,   \* App's showConfirmReset, NoReset while it is null
    revision,           \* which of the two revisions of App is running
    mounted             \* App is rendered: false before the first render and
                        \* after a render that threw

engineVars == <<pc, difficulty, board, solution, puzzle, attempts, cellsToRemove,
                seedIdx, trial, b, count, stack, phase, ret, rng>>
gameVars == <<gameState, isNewGameModalOpen, showConfirmReset, revision, mounted>>

vars == <<pc, difficulty, board, solution, puzzle, attempts, cellsToRemove,
          seedIdx, trial, b, count, stack, phase, ret, rng,
          gameState, isNewGameModalOpen, showConfirmReset, revision, mounted>>

-----------------------------------------------------------------------------
(* Grids *)

NULL == 0
Idx == 0..8
Digits == 1..9
EmptyGrid == [r \in Idx |-> [c \in Idx |-> NULL]]

\* App before its first render: useState(null), useState(false), useState(null)
NoGame == [isNull |-> TRUE]
NoReset == "none"
Revisions == {"App.tsx", "part_000"}
NoApp ==
    /\ gameState = NoGame
    /\ isNewGameModalOpen = FALSE
    /\ showConfirmReset = NoReset
    /\ revision = "App.tsx"
    /\ mounted = FALSE

-----------------------------------------------------------------------------
(* isValid, src/App.tsx 515-525 *)

\* isValid with the box loops of lines 519-523 left out
isValidNoBox(brd, row, col, num) ==
    /\ \A x \in Idx : brd[row][x] # num
    /\ \A x \in Idx : brd[x][col] # num

isValid(brd, row, col, num) ==
    /\ \A x \in Idx : brd[row][x] # num
    /\ \A x \in Idx : brd[x][col] # num
    /\ LET startRow == row - (row % 3)
           startCol == col - (col % 3)
       IN \A i \in 0..2 : \A j \in 0..2 : brd[i + startRow][j + startCol] # num


-----------------------------------------------------------------------------
(* The random source.  Math.random is outside the repository, so what it   *)
(* returns is an input of the model:                                       *)
(*  - the draws of the seeding loop (line 577) are the successive states   *)
(*    of a 16-bit linear congruential generator whose seed is an input,    *)
(*    Math.floor(Math.random() * 9) being the scaling of a state to 0..8;  *)
(*  - in the removal loop (lines 598-599) a pick of an empty cell may come *)
(*    at any time, and the picks of filled cells come in descending        *)
(*    row-major order from the last cell, round after round, so that       *)
(*    every filled cell is picked again and again.                         *)

RngModulus == 65536
RngMultiplier == 25173
RngIncrement == 13849
MaxSeed == 1

NextRnd(g) == [g EXCEPT !.x = (RngMultiplier * g.x + RngIncrement) % RngModulus]
Floor9(g) == (g.x * 9) \div RngModulus

\* the filled cell the next pick of a filled cell falls on: the first one at
\* or below the position g.k, wrapping from cell 0 to cell 80
PickedCell(grid, g) ==
    LET at(d) == (g.k + 81 - d) % 81
        d0 == CHOOSE d \in 0..80 :
                  /\ grid[at(d) \div 9][at(d) % 9] # NULL
                  /\ \A e \in 0..(d - 1) : grid[at(e) \div 9][at(e) % 9] = NULL
    IN at(d0)
AfterPick(g, cell) == [g EXCEPT !.k = (cell + 80) % 81]

-----------------------------------------------------------------------------
(* The scan both searches start with: the first empty cell in row-major    *)
(* order (the nested for-loops of lines 528-530 and 548-550), 81 if none.  *)

HasNull(brd, row) == \E col \in Idx : brd[row][col] = NULL

\* FirstNull with the two loops of lines 528-529 exchanged: a column-major scan
FirstNullByColumn(brd) ==
    IF \A row \in Idx : ~HasNull(brd, row) THEN 81
    ELSE LET col == CHOOSE c1 \in Idx :
                        /\ \E r \in Idx : brd[r][c1] = NULL
                        /\ \A c2 \in 0..(c1 - 1) : \A r \in Idx : brd[r][c2] # NULL
             row == CHOOSE r1 \in Idx :
                        brd[r1][col] = NULL /\ \A r2 \in 0..(r1 - 1) : brd[r2][col] # NULL
         IN 9 * row + col

FirstNull(brd) ==
    IF \A row \in Idx : ~HasNull(brd, row) THEN 81
    ELSE LET row == CHOOSE r1 \in Idx :
                        HasNull(brd, r1) /\ \A r2 \in 0..(r1 - 1) : ~HasNull(brd, r2)
             col == CHOOSE c1 \in Idx :
                        brd[row][c1] = NULL /\ \A c2 \in 0..(c1 - 1) : brd[row][c2] # NULL
         IN 9 * row + col

\* NextValid with the loop bound written num < 9: 9 is never tried
NextValidBelow9(brd, row, col, from) ==
    IF \E n \in from..8 : isValid(brd, row, col, n)
    THEN CHOOSE n \in from..8 :
             isValid(brd, row, col, n) /\ \A m \in from..(n - 1) : ~isValid(brd, row, col, m)
    ELSE 10

\* the first candidate from `from` upwards that passes isValid, 10 if none:
\* where the loop `for (num ...; num <= 9; num++) if (isValid(...))` enters its body
NextValid(brd, row, col, from) ==
    IF \E n \in from..9 : isValid(brd, row, col, n)
    THEN CHOOSE n \in from..9 :
             isValid(brd, row, col, n) /\ \A m \in from..(n - 1) : ~isValid(brd, row, col, m)
    ELSE 10

Frame(k, num) == [row |-> k \div 9, col |-> k % 9, num |-> num]
Top == stack[Len(stack)]
Pop == SubSeq(stack, 1, Len(stack) - 1)

-----------------------------------------------------------------------------
(* solveSudoku, src/App.tsx 527-543, on the variable board.                *)
(* phase: "loop" the top activation is in its for-num loop;                *)
(*        "back" (countSolutions only) a callee has just returned to it;   *)
(*        "ret"  the outermost activation has returned.                    *)

SolvePcs == {"solve", "resolve", "fnsolve"}

\* EnterSolve with line 542 written return false
EnterSolveFalse(brd) ==
    LET k == FirstNull(brd)
    IN IF k = 81
       THEN /\ stack' = <<>>
            /\ ret' = FALSE
            /\ phase' = "ret"
       ELSE /\ stack' = <<Frame(k, 1)>>
            /\ ret' = FALSE
            /\ phase' = "loop"

\* the outermost call: lines 528-530, then 542 if the grid is full
EnterSolve(brd) ==
    LET k == FirstNull(brd)
    IN IF k = 81
       THEN /\ stack' = <<>>
            /\ ret' = TRUE
            /\ phase' = "ret"
       ELSE /\ stack' = <<Frame(k, 1)>>
            /\ ret' = FALSE
            /\ phase' = "loop"

\* lines 531-534: the next candidate that passes isValid is placed and the
\* recursive call made; a callee that finds no empty cell returns true and
\* every activation returns true in turn (line 534)
SolvePlace ==
    /\ pc \in SolvePcs
    /\ phase = "loop"
    /\ LET f == Top
           num == NextValid(board, f.row, f.col, f.num)
       IN /\ num <= 9
          /\ LET nb == [board EXCEPT ![f.row][f.col] = num]
                 k == FirstNull(nb)
             IN /\ board' = nb
                /\ IF k = 81
                   THEN /\ stack' = <<>>
                        /\ ret' = TRUE
                        /\ phase' = "ret"
                   ELSE /\ stack' = Append([stack EXCEPT ![Len(stack)].num = num], Frame(k, 1))
                        /\ UNCHANGED <<ret, phase>>
    /\ UNCHANGED <<pc, difficulty, solution, puzzle, attempts, cellsToRemove,
                   seedIdx, trial, b, count, rng>>
    /\ UNCHANGED gameVars

\* SolveFail with line 535 left out: the caller keeps the value it had placed
SolveFailKeep ==
    /\ pc \in SolvePcs
    /\ phase = "loop"
    /\ LET f == Top
       IN NextValid(board, f.row, f.col, f.num) > 9
    /\ IF Len(stack) = 1
       THEN /\ stack' = <<>>
            /\ ret' = FALSE
            /\ phase' = "ret"
       ELSE LET caller == stack[Len(stack) - 1]
            IN /\ stack' = [Pop EXCEPT ![Len(stack) - 1].num = caller.num + 1]
               /\ UNCHANGED <<ret, phase>>
    /\ UNCHANGED <<pc, difficulty, board, solution, puzzle, attempts, cellsToRemove,
                   seedIdx, trial, b, count, rng>>
    /\ UNCHANGED gameVars

\* line 538: no candidate is left, the activation returns false; its caller
\* clears the cell it had placed (line 535) and goes on with the next value
SolveFail ==
    /\ pc \in SolvePcs
    /\ phase = "loop"
    /\ LET f == Top
       IN NextValid(board, f.row, f.col, f.num) > 9
    /\ IF Len(stack) = 1
       THEN /\ stack' = <<>>
            /\ ret' = FALSE
            /\ phase' = "ret"
            /\ UNCHANGED board
       ELSE LET caller == stack[Len(stack) - 1]
            IN /\ board' = [board EXCEPT ![caller.row][caller.col] = NULL]
               /\ stack' = [Pop EXCEPT ![Len(stack) - 1].num = caller.num + 1]
               /\ UNCHANGED <<ret, phase>>
    /\ UNCHANGED <<pc, difficulty, solution, puzzle, attempts, cellsToRemove,
                   seedIdx, trial, b, count, rng>>
    /\ UNCHANGED gameVars

-----------------------------------------------------------------------------
(* countSolutions, src/App.tsx 545-567, on the variable b.                 *)

CountPcs == {"count", "fncount"}

\* JSON.parse(JSON.stringify(puzzle)), line 603: a new array of new rows,
\* null written as null and a number as its decimal digits and read back
JsonCell(v) == IF v = NULL THEN NULL ELSE v
DeepCopy(grid) == [r \in Idx |-> [c \in Idx |-> JsonCell(grid[r][c])]]

\* lines 546 and 565: count = 0 and the outermost solve(board); a grid with
\* no empty cell is counted at once (line 563)
EnterCount(brd) ==
    LET k == FirstNull(brd)
    IN /\ b' = brd
       /\ IF k = 81
          THEN /\ stack' = <<>>
               /\ count' = 1
               /\ phase' = "ret"
          ELSE /\ stack' = <<Frame(k, 1)>>
               /\ count' = 0
               /\ phase' = "loop"

\* CountPlace with no copy made at line 603: solve works on the puzzle itself
CountPlaceOnPuzzle ==
    /\ pc \in CountPcs
    /\ phase = "loop"
    /\ LET f == Top
           num == NextValid(b, f.row, f.col, f.num)
       IN /\ num <= 9
          /\ LET nb == [b EXCEPT ![f.row][f.col] = num]
                 k == FirstNull(nb)
             IN /\ b' = nb
                /\ puzzle' = nb
                /\ IF k = 81
                   THEN /\ stack' = [stack EXCEPT ![Len(stack)].num = num]
                        /\ count' = count + 1
                        /\ phase' = "back"
                   ELSE /\ stack' = Append([stack EXCEPT ![Len(stack)].num = num], Frame(k, 1))
                        /\ UNCHANGED <<count, phase>>
    /\ UNCHANGED <<pc, difficulty, board, solution, attempts, cellsToRemove,
                   seedIdx, trial, ret, rng>>
    /\ UNCHANGED gameVars

\* lines 551-554: the next candidate that passes isValid is placed and solve
\* called on the grid; a callee that finds no empty cell does count++ (line
\* 563) and returns
CountPlace ==
    /\ pc \in CountPcs
    /\ phase = "loop"
    /\ LET f == Top
           num == NextValid(b, f.row, f.col, f.num)
       IN /\ num <= 9
          /\ LET nb == [b EXCEPT ![f.row][f.col] = num]
                 k == FirstNull(nb)
             IN /\ b' = nb
                /\ IF k = 81
                   THEN /\ stack' = [stack EXCEPT ![Len(stack)].num = num]
                        /\ count' = count + 1
                        /\ phase' = "back"
                   ELSE /\ stack' = Append([stack EXCEPT ![Len(stack)].num = num], Frame(k, 1))
                        /\ UNCHANGED <<count, phase>>
    /\ UNCHANGED <<pc, difficulty, board, solution, puzzle, attempts, cellsToRemove,
                   seedIdx, trial, ret, rng>>
    /\ UNCHANGED gameVars

\* CountBack with the test of line 556 written count > 2
CountBackLate ==
    /\ pc \in CountPcs
    /\ phase = "back"
    /\ LET f == Top
       IN /\ b' = [b EXCEPT ![f.row][f.col] = NULL]
          /\ IF count > 2
             THEN /\ stack' = Pop
                  /\ phase' = IF Len(stack) = 1 THEN "ret" ELSE "back"
             ELSE /\ stack' = [stack EXCEPT ![Len(stack)].num = f.num + 1]
                  /\ phase' = "loop"
    /\ UNCHANGED <<pc, difficulty, board, solution, puzzle, attempts, cellsToRemove,
                   seedIdx, trial, count, ret, rng>>
    /\ UNCHANGED gameVars

\* CountBack with the test of line 556 written count > 0: the search stops
\* at the first completion
CountBackFirst ==
    /\ pc \in CountPcs
    /\ phase = "back"
    /\ LET f == Top
       IN /\ b' = [b EXCEPT ![f.row][f.col] = NULL]
          /\ IF count > 0
             THEN /\ stack' = Pop
                  /\ phase' = IF Len(stack) = 1 THEN "ret" ELSE "back"
             ELSE /\ stack' = [stack EXCEPT ![Len(stack)].num = f.num + 1]
                  /\ phase' = "loop"
    /\ UNCHANGED <<pc, difficulty, board, solution, puzzle, attempts, cellsToRemove,
                   seedIdx, trial, count, ret, rng>>
    /\ UNCHANGED gameVars

\* CountBack with lines 555 and 556 exchanged: the early return leaves the
\* cell as placed
CountBackKeep ==
    /\ pc \in CountPcs
    /\ phase = "back"
    /\ LET f == Top
       IN IF count > 1
          THEN /\ stack' = Pop
               /\ phase' = IF Len(stack) = 1 THEN "ret" ELSE "back"
               /\ UNCHANGED b
          ELSE /\ b' = [b EXCEPT ![f.row][f.col] = NULL]
               /\ stack' = [stack EXCEPT ![Len(stack)].num = f.num + 1]
               /\ phase' = "loop"
    /\ UNCHANGED <<pc, difficulty, board, solution, puzzle, attempts, cellsToRemove,
                   seedIdx, trial, count, ret, rng>>
    /\ UNCHANGED gameVars

\* lines 555-556 after a callee returned: the cell is cleared; with count > 1
\* the activation returns, else the loop goes on with the next value
CountBack ==
    /\ pc \in CountPcs
    /\ phase = "back"
    /\ LET f == Top
       IN /\ b' = [b EXCEPT ![f.row][f.col] = NULL]
          /\ IF count > 1
             THEN /\ stack' = Pop
                  /\ phase' = IF Len(stack) = 1 THEN "ret" ELSE "back"
             ELSE /\ stack' = [stack EXCEPT ![Len(stack)].num = f.num + 1]
                  /\ phase' = "loop"
    /\ UNCHANGED <<pc, difficulty, board, solution, puzzle, attempts, cellsToRemove,
                   seedIdx, trial, count, ret, rng>>
    /\ UNCHANGED gameVars

\* line 559: the loop is over, the activation returns
CountExhaust ==
    /\ pc \in CountPcs
    /\ phase = "loop"
    /\ LET f == Top
       IN NextValid(b, f.row, f.col, f.num) > 9
    /\ stack' = Pop
    /\ phase' = IF Len(stack) = 1 THEN "ret" ELSE "back"
    /\ UNCHANGED <<pc, difficulty, board, solution, puzzle, attempts, cellsToRemove,
                   seedIdx, trial, b, count, ret, rng>>
    /\ UNCHANGED gameVars

-----------------------------------------------------------------------------
(* generateSudoku, src/App.tsx 569-612                                     *)

\* the enum Difficulty of types.ts
Difficulties == {"EASY", "MEDIUM", "HARD", "EXPERT"}

\* the switch with the counts of EASY and MEDIUM exchanged
RemovalTargetMixed(d) ==
    CASE d = "EASY" -> 45
      [] d = "MEDIUM" -> 35
      [] d = "HARD" -> 55
      [] d = "EXPERT" -> 60
      [] OTHER -> 0

\* the switch of lines 590-595
RemovalTarget(d) ==
    CASE d = "EASY" -> 35
      [] d = "MEDIUM" -> 45
      [] d = "HARD" -> 55
      [] d = "EXPERT" -> 60
      [] OTHER -> 0

NoTrial == [r |-> 0, c |-> 0, temp |-> NULL]

\* SeedRow with line 579 written board[j][i + k]: the three boxes of the top band
SeedRowBand(n) == (n % 9) \div 3

\* the cell the seeding loops (i = 0, 3, 6; j, k = 0..2) are at
SeedRow(n) == 3 * (n \div 9) + ((n % 9) \div 3)

\* SeedCol with line 579 written board[i + j][k]: the three boxes of the left stack
SeedColStack(n) == n % 3
SeedCol(n) == 3 * (n \div 9) + (n % 3)

\* lines 576-579, a draw that passes isValid: the cell is filled
SeedAccept ==
    /\ pc = "seed"
    /\ seedIdx < 27
    /\ LET g == NextRnd(rng)
           num == Floor9(g) + 1
       IN /\ isValid(board, SeedRow(seedIdx), SeedCol(seedIdx), num)
          /\ board' = [board EXCEPT ![SeedRow(seedIdx)][SeedCol(seedIdx)] = num]
          /\ rng' = g
    /\ seedIdx' = seedIdx + 1
    /\ UNCHANGED <<pc, difficulty, solution, puzzle, attempts, cellsToRemove,
                   trial, b, count, stack, phase, ret>>
    /\ UNCHANGED gameVars

\* lines 577-578, a draw that fails isValid: the do-while draws again
SeedReject ==
    /\ pc = "seed"
    /\ seedIdx < 27
    /\ LET g == NextRnd(rng)
           num == Floor9(g) + 1
       IN /\ ~isValid(board, SeedRow(seedIdx), SeedCol(seedIdx), num)
          /\ rng' = g
    /\ UNCHANGED <<pc, difficulty, board, solution, puzzle, attempts, cellsToRemove,
                   seedIdx, trial, b, count, stack, phase, ret>>
    /\ UNCHANGED gameVars

\* line 584: solveSudoku(board)
SeedSolve ==
    /\ pc = "seed"
    /\ seedIdx = 27
    /\ pc' = "solve"
    /\ EnterSolve(board)
    /\ UNCHANGED <<difficulty, board, solution, puzzle, attempts, cellsToRemove,
                   seedIdx, trial, b, count, rng>>
    /\ UNCHANGED gameVars

\* Derive with the copy of line 585 taken before the solver ran: solution
\* holds the seeded boxes only
DeriveUnsolved ==
    /\ pc = "solve"
    /\ phase = "ret"
    /\ solution' = [r \in Idx |-> [c \in Idx |->
                        IF r \div 3 = c \div 3 THEN board[r][c] ELSE NULL]]
    /\ puzzle' = board
    /\ attempts' = 0
    /\ cellsToRemove' = RemovalTarget(difficulty)
    /\ pc' = "remove"
    /\ UNCHANGED <<difficulty, board, seedIdx, trial, b, count, stack, phase, ret, rng>>
    /\ UNCHANGED gameVars

\* lines 585-595 once solveSudoku has returned; its result is not looked at
Derive ==
    /\ pc = "solve"
    /\ phase = "ret"
    /\ solution' = board
    /\ puzzle' = board
    /\ attempts' = 0
    /\ cellsToRemove' = RemovalTarget(difficulty)
    /\ pc' = "remove"
    /\ UNCHANGED <<difficulty, board, seedIdx, trial, b, count, stack, phase, ret, rng>>
    /\ UNCHANGED gameVars

\* lines 598-600, a pick of an empty cell: nothing is done
PickEmpty ==
    /\ pc = "remove"
    /\ attempts < cellsToRemove
    /\ \E r \in Idx, c \in Idx : puzzle[r][c] = NULL
    /\ UNCHANGED vars

\* PickFilled with line 585 copying no row: solution and puzzle share their
\* rows, and the cell cleared in one is cleared in the other
PickFilledShared ==
    /\ pc = "remove"
    /\ attempts < cellsToRemove
    /\ ~(\A r \in Idx, c \in Idx : puzzle[r][c] = NULL)
    /\ LET cell == PickedCell(puzzle, rng)
           r == cell \div 9
           c == cell % 9
           cleared == [puzzle EXCEPT ![r][c] = NULL]
       IN /\ trial' = [r |-> r, c |-> c, temp |-> puzzle[r][c]]
          /\ puzzle' = cleared
          /\ solution' = cleared
          /\ EnterCount(DeepCopy(cleared))
          /\ rng' = AfterPick(rng, cell)
    /\ pc' = "count"
    /\ UNCHANGED <<difficulty, board, attempts, cellsToRemove, seedIdx, ret>>
    /\ UNCHANGED gameVars

\* lines 598-603, a pick of a filled cell: it is cleared and countSolutions
\* called on a copy of the puzzle
PickFilled ==
    /\ pc = "remove"
    /\ attempts < cellsToRemove
    /\ ~(\A r \in Idx, c \in Idx : puzzle[r][c] = NULL)
    /\ LET cell == PickedCell(puzzle, rng)
           r == cell \div 9
           c == cell % 9
           cleared == [puzzle EXCEPT ![r][c] = NULL]
       IN /\ trial' = [r |-> r, c |-> c, temp |-> puzzle[r][c]]
          /\ puzzle' = cleared
          /\ EnterCount(DeepCopy(cleared))
          /\ rng' = AfterPick(rng, cell)
    /\ pc' = "count"
    /\ UNCHANGED <<difficulty, board, solution, attempts, cellsToRemove, seedIdx, ret>>
    /\ UNCHANGED gameVars

\* TrialKeep with the test of line 603 written as count === 0: the cell
\* stays cleared whenever a completion exists
TrialKeepAny ==
    /\ pc = "count"
    /\ phase = "ret"
    /\ count >= 1
    /\ attempts' = attempts + 1
    /\ pc' = "remove"
    /\ UNCHANGED <<difficulty, board, solution, puzzle, cellsToRemove, seedIdx,
                   trial, b, count, stack, phase, ret, rng>>
    /\ UNCHANGED gameVars

\* lines 605-607: the count is 1, the cell stays cleared
TrialKeep ==
    /\ pc = "count"
    /\ phase = "ret"
    /\ count = 1
    /\ attempts' = attempts + 1
    /\ pc' = "remove"
    /\ UNCHANGED <<difficulty, board, solution, puzzle, cellsToRemove, seedIdx,
                   trial, b, count, stack, phase, ret, rng>>
    /\ UNCHANGED gameVars

\* TrialRestore without the assignment of line 604
TrialRestoreNone ==
    /\ pc = "count"
    /\ phase = "ret"
    /\ count # 1
    /\ pc' = "remove"
    /\ UNCHANGED <<difficulty, board, solution, puzzle, attempts, cellsToRemove, seedIdx,
                   trial, b, count, stack, phase, ret, rng>>
    /\ UNCHANGED gameVars

\* TrialRestore with attempts++ of line 606 moved out of the else branch
TrialRestoreCounted ==
    /\ pc = "count"
    /\ phase = "ret"
    /\ count # 1
    /\ puzzle' = [puzzle EXCEPT ![trial.r][trial.c] = trial.temp]
    /\ attempts' = attempts + 1
    /\ pc' = "remove"
    /\ UNCHANGED <<difficulty, board, solution, cellsToRemove, seedIdx,
                   trial, b, count, stack, phase, ret, rng>>
    /\ UNCHANGED gameVars

\* TrialRestore with row and column exchanged in line 604
TrialRestoreSwapped ==
    /\ pc = "count"
    /\ phase = "ret"
    /\ count # 1
    /\ puzzle' = [puzzle EXCEPT ![trial.c][trial.r] = trial.temp]
    /\ pc' = "remove"
    /\ UNCHANGED <<difficulty, board, solution, attempts, cellsToRemove, seedIdx,
                   trial, b, count, stack, phase, ret, rng>>
    /\ UNCHANGED gameVars

\* lines 603-604: the count is not 1, the cell gets its value back
TrialRestore ==
    /\ pc = "count"
    /\ phase = "ret"
    /\ count # 1
    /\ puzzle' = [puzzle EXCEPT ![trial.r][trial.c] = trial.temp]
    /\ pc' = "remove"
    /\ UNCHANGED <<difficulty, board, solution, attempts, cellsToRemove, seedIdx,
                   trial, b, count, stack, phase, ret, rng>>
    /\ UNCHANGED gameVars

\* Return with the loop of line 597 given a cap: it is also left after a
\* trial that was rejected
ReturnCapped ==
    /\ pc = "remove"
    /\ (attempts >= cellsToRemove \/ count = 2)
    /\ pc' = "done"
    /\ UNCHANGED <<difficulty, board, solution, puzzle, attempts, cellsToRemove,
                   seedIdx, trial, b, count, stack, phase, ret, rng>>
    /\ UNCHANGED gameVars

\* lines 597 and 611: the loop condition fails, { puzzle, solution } is returned
Return ==
    /\ pc = "remove"
    /\ attempts >= cellsToRemove
    /\ pc' = "done"
    /\ UNCHANGED <<difficulty, board, solution, puzzle, attempts, cellsToRemove,
                   seedIdx, trial, b, count, stack, phase, ret, rng>>
    /\ UNCHANGED gameVars

\* a caller runs solveSudoku on a copy of the returned puzzle
Resolve ==
    /\ pc = "done"
    /\ board' = [r \in Idx |-> [c \in Idx |-> puzzle[r][c]]]
    /\ pc' = "resolve"
    /\ EnterSolve(puzzle)
    /\ UNCHANGED <<difficulty, solution, puzzle, attempts, cellsToRemove,
                   seedIdx, trial, b, count, rng>>
    /\ UNCHANGED gameVars

-----------------------------------------------------------------------------
(* Calls of the three functions on grids given by a caller.                *)

\* a solved grid: row r is row 0 shifted by 3 * (r % 3) + r \div 3
Base == [r \in Idx |-> [c \in Idx |-> ((3 * (r % 3) + (r \div 3) + c) % 9) + 1]]

\* the cells a caller's grid may have empty, in the order they are added
Pool == << <<7, 0>>, <<8, 0>>, <<7, 3>>, <<8, 3>>, <<7, 6>>, <<8, 6>>,
           <<8, 8>>, <<0, 7>>, <<8, 7>>, <<5, 8>> >>
MaxEmpty == 6
\* the cell a caller's grid may hold another value in
OddCell == <<8, 6>>

Cleared(grid, cells) ==
    [r \in Idx |-> [c \in Idx |-> IF <<r, c>> \in cells THEN NULL ELSE grid[r][c]]]

\* two empty cells in one row, and the two cells that would stop their values
\* from being exchanged hold another value
SwapGrid ==
    [Cleared(Base, {<<8, 7>>, <<8, 8>>}) EXCEPT ![0][7] = 9, ![5][8] = 9]

\* full valid grids: Base with every digit d written as d + s (9 wrapping to 1)
MaxShift == 2
Shifted(s) == [r \in Idx |-> [c \in Idx |-> ((Base[r][c] - 1 + s) % 9) + 1]]

\* a grid with its two last rows empty: it has eight valid completions
ManyGrid == Cleared(Base, {<<r, c>> : r \in {7, 8}, c \in Idx})

SearchInputs ==
    {SwapGrid, ManyGrid} \cup {Shifted(s) : s \in 1..MaxShift} \cup
    UNION { { Cleared(Base, {Pool[i] : i \in m}),
              [Cleared(Base, {Pool[i] : i \in m}) EXCEPT ![OddCell[1]][OddCell[2]] = v] }
            : m \in SUBSET (1..MaxEmpty), v \in Digits }

\* the cells a grid handed to isValid may be filled in
Probes == << <<4, 4>>, <<4, 7>>, <<0, 4>>, <<3, 5>> >>
MaxFilled == 2

ValidInputs ==
    { [r \in Idx |-> [c \in Idx |->
          IF \E i \in 1..MaxFilled : Probes[i] = <<r, c>>
          THEN f[CHOOSE i \in 1..MaxFilled : Probes[i] = <<r, c>>]
          ELSE NULL]]
      : f \in [1..MaxFilled -> Digits \cup {NULL}] }

\* isValid(board, row, col, num) called, its arguments and result kept
CallIsValid ==
    /\ pc = "fn"
    /\ \E row \in Idx, col \in Idx, num \in Digits :
          /\ trial' = [r |-> row, c |-> col, temp |-> num]
          /\ ret' = isValid(board, row, col, num)
    /\ pc' = "fnvalid"
    /\ UNCHANGED <<difficulty, board, solution, puzzle, attempts, cellsToRemove,
                   seedIdx, b, count, stack, phase, rng>>
    /\ UNCHANGED gameVars

\* solveSudoku(board) called
CallSolve ==
    /\ pc = "fn"
    /\ pc' = "fnsolve"
    /\ EnterSolve(board)
    /\ UNCHANGED <<difficulty, board, solution, puzzle, attempts, cellsToRemove,
                   seedIdx, trial, b, count, rng>>
    /\ UNCHANGED gameVars

\* countSolutions(board) called
CallCount ==
    /\ pc = "fn"
    /\ pc' = "fncount"
    /\ EnterCount(board)
    /\ UNCHANGED <<difficulty, board, solution, puzzle, attempts, cellsToRemove,
                   seedIdx, trial, ret, rng>>
    /\ UNCHANGED gameVars

-----------------------------------------------------------------------------
(* The game component App. Source lines are given for src/App.tsx and, in  *)
(* brackets, for src/unnamed/part_000. The timer (time), the colour        *)
(* settings and completedNumbers, which only disables buttons of the       *)
(* number pad while the keyboard stays open, are left out.                 *)

\* selectedCell: null, or a pair [r, c]
NoCell == <<>>

\* startNewGame's initialBoard, lines 36-43 [81-88]: one CellData per cell
InitialBoard(pz) ==
    [r \in Idx |-> [c \in Idx |->
        [value |-> pz[r][c], fixed |-> pz[r][c] # NULL, notes |-> {}, error |-> FALSE]]]

\* the state startNewGame sets, lines 45-60 [90-105]
NewGame(pz, sol, d, zen) ==
    [board |-> InitialBoard(pz),
     solution |-> sol,
     difficulty |-> d,
     errors |-> 0,
     maxErrors |-> IF zen THEN 999 ELSE 3,
     isPaused |-> FALSE,
     selectedCell |-> NoCell,
     history |-> <<>>,
     zenMode |-> zen,
     noteMode |-> FALSE,
     isGameOver |-> FALSE,
     isWon |-> FALSE]

\* the win-detection effect, lines 94-110 [139-155], run after a render with
\* a new board
isComplete(gs) == \A r \in Idx, c \in Idx : gs.board[r][c].value = gs.solution[r][c]
WinEffect(gs) ==
    IF isComplete(gs) /\ ~gs.isWon
    THEN [gs EXCEPT !.isWon = TRUE, !.isGameOver = TRUE]
    ELSE gs

\* the notes of a cell as JSON text writes them. JSON.stringify(board), line
\* 136: a Set has no enumerable property of its own and is written as {}.
\* serializeBoard [73-77]: the replacer turns a Set into the array of its
\* members.
JsonNotes(rev, notes) ==
    IF rev = "App.tsx" THEN [kind |-> "object"] ELSE [kind |-> "array", items |-> notes]

\* historySnapshot, line 136 [183]
Snapshot(rev, brd) ==
    [r \in Idx |-> [c \in Idx |->
        [value |-> brd[r][c].value,
         fixed |-> brd[r][c].fixed,
         notes |-> JsonNotes(rev, brd[r][c].notes),
         error |-> brd[r][c].error]]]

\* new Set(cell.notes), line 180 [230], throws on a value that is not iterable
Iterable(json) == json.kind = "array"
Revivable(snap) == \A r \in Idx, c \in Idx : Iterable(snap[r][c].notes)

\* restoredBoard, lines 177-181 [227-231]
Revived(snap) ==
    [r \in Idx |-> [c \in Idx |->
        [value |-> snap[r][c].value,
         fixed |-> snap[r][c].fixed,
         notes |-> snap[r][c].notes.items,
         error |-> snap[r][c].error]]]

\* .slice(0, 20), line 169 [.slice(0, 30), line 218]
HistoryLimit(rev) == IF rev = "App.tsx" THEN 20 ELSE 30
Slice(h, n) == SubSeq(h, 1, IF Len(h) < n THEN Len(h) ELSE n)

\* hasProgress, lines 112-115 [157-162]
hasProgress(rev, gs) ==
    /\ gs # NoGame
    /\ rev = "part_000" => ~(gs.isGameOver \/ gs.isWon)
    /\ \E r \in Idx, c \in Idx :
          /\ ~gs.board[r][c].fixed
          /\ (gs.board[r][c].value # NULL \/ gs.board[r][c].notes # {})

\* the cells whose notes lose num after a correct entry at (r, c), lines 154-159 [201-206]
NotePeer(r, c, rr, cc) ==
    \/ rr = r
    \/ cc = c
    \/ (rr \div 3 = r \div 3 /\ cc \div 3 = c \div 3)

\* the first return of handleInput, line 131 [178], and the second, line 134 [181]
InputAllowed(gs) ==
    /\ gs # NoGame
    /\ gs.selectedCell # NoCell
    /\ ~gs.isPaused
    /\ ~gs.isGameOver
    /\ ~isNewGameModalOpen

\* InputPasses without the return of line 134 [181]
InputPassesFixed(gs) == InputAllowed(gs)

InputPasses(gs) ==
    /\ InputAllowed(gs)
    /\ ~gs.board[gs.selectedCell[1]][gs.selectedCell[2]].fixed

\* the board the updater of handleInput builds, lines 140-161 [187-208];
\* num is NULL for an erasure
BoardAfterInput(gs, num) ==
    LET r == gs.selectedCell[1]
        c == gs.selectedCell[2]
        cell == gs.board[r][c]
    IN IF gs.noteMode /\ num # NULL
       THEN [gs.board EXCEPT ![r][c] =
                [cell EXCEPT !.notes = IF num \in @ THEN @ \ {num} ELSE @ \cup {num},
                             !.value = NULL]]
       ELSE LET isError == num # NULL /\ num # gs.solution[r][c]
                placed == [gs.board EXCEPT ![r][c] =
                              [cell EXCEPT !.value = num, !.error = isError, !.notes = {}]]
            IN IF num # NULL /\ ~isError
               THEN [rr \in Idx |-> [cc \in Idx |->
                        IF NotePeer(r, c, rr, cc)
                        THEN [placed[rr][cc] EXCEPT !.notes = @ \ {num}]
                        ELSE placed[rr][cc]]]
               ELSE placed

\* newErrors with the test of line 163 written without !prev.noteMode
ErrorsAfterInputInNotes(gs, num) ==
    IF num # NULL /\ num # gs.solution[gs.selectedCell[1]][gs.selectedCell[2]]
    THEN gs.errors + 1
    ELSE gs.errors

\* newErrors, line 163 [210]
ErrorsAfterInput(gs, num) ==
    IF ~gs.noteMode /\ num # NULL /\ num # gs.solution[gs.selectedCell[1]][gs.selectedCell[2]]
    THEN gs.errors + 1
    ELSE gs.errors

\* the state the updater of handleInput returns, lines 164-170 [213-219],
\* followed by the win-detection effect
AfterInput(rev, gs, num) ==
    WinEffect([gs EXCEPT
        !.board = BoardAfterInput(gs, num),
        !.errors = ErrorsAfterInput(gs, num),
        !.isGameOver = ErrorsAfterInput(gs, num) >= gs.maxErrors,
        !.history = Slice(<<Snapshot(rev, gs.board)>> \o gs.history, HistoryLimit(rev))])

\* the state the updater of undo returns, line 182 [232], followed by the
\* win-detection effect
AfterUndo(gs) ==
    WinEffect([gs EXCEPT !.board = Revived(gs.history[1]), !.history = Tail(gs.history)])

\* what the games of this model are bounded by: the entries kept for undo,
\* the numbers typed, the wrong entries made in one game
MaxHistory == 2
MaxKey == 1
MaxMistakes == 3
Keys == 1..MaxKey

\* the cells the player selects: the cells a puzzle of this model may have
\* empty, and a cell that is given in all of them
GameCells == {<<0, 0>>, <<0, 1>>}
GivenCell == <<0, 2>>
Selectable == GameCells \cup {GivenCell}

\* an input is taken while the bounds leave room for it
Roomy(gs, num) ==
    /\ Len(gs.history) < MaxHistory
    /\ ErrorsAfterInput(gs, num) <= MaxMistakes

gameFrame == UNCHANGED <<engineVars, revision>>

\* the mount effect, lines 66-67 [111-112]: startNewGame() with its defaults
Mount ==
    /\ ~mounted
    /\ gameState = NoGame
    /\ pc = "done"
    /\ mounted' = TRUE
    /\ gameState' = WinEffect(NewGame(puzzle, solution, difficulty, FALSE))
    /\ isNewGameModalOpen' = FALSE
    /\ showConfirmReset' = NoReset
    /\ gameFrame

\* setIsNewGameModalOpen(true), lines 317, 371, 384 [338, 375, 387]
OpenModal ==
    /\ mounted
    /\ ~isNewGameModalOpen
    /\ isNewGameModalOpen' = TRUE
    /\ UNCHANGED <<gameState, showConfirmReset, mounted>>
    /\ gameFrame

\* setIsNewGameModalOpen(false), line 231 [285]
CloseModal ==
    /\ mounted
    /\ isNewGameModalOpen
    /\ isNewGameModalOpen' = FALSE
    /\ UNCHANGED <<gameState, showConfirmReset, mounted>>
    /\ gameFrame

\* startNewGame(d, zen) from a running App, lines 34-64 [79-109]:
\* generateSudoku gives the pair again
Restart(d, zen) ==
    /\ gameState' = WinEffect(NewGame(puzzle, solution, d, zen))
    /\ isNewGameModalOpen' = FALSE
    /\ showConfirmReset' = NoReset
    /\ UNCHANGED mounted
    /\ gameFrame

\* handleDifficultyClick, lines 117-123 [164-170]; its buttons are in the
\* modal, line 244 [293], and in src/App.tsx also below the board, line 493
DifficultyClick ==
    /\ mounted
    /\ revision = "part_000" => isNewGameModalOpen
    /\ IF hasProgress(revision, gameState)
       THEN /\ showConfirmReset' = difficulty
            /\ UNCHANGED <<gameState, isNewGameModalOpen, mounted>>
            /\ gameFrame
       ELSE Restart(difficulty, gameState.zenMode)

\* the Modo Zen button of the modal, src/App.tsx line 257
ZenClick ==
    /\ mounted
    /\ revision = "App.tsx"
    /\ isNewGameModalOpen
    /\ Restart(gameState.difficulty, ~gameState.zenMode)

\* the Reiniciar button of the confirmation, line 289 [315]
ConfirmReset ==
    /\ mounted
    /\ showConfirmReset # NoReset
    /\ Restart(showConfirmReset, gameState.zenMode)

\* the Cancelar button of the confirmation, line 283 [314]
CancelReset ==
    /\ mounted
    /\ showConfirmReset # NoReset
    /\ showConfirmReset' = NoReset
    /\ UNCHANGED <<gameState, isNewGameModalOpen, mounted>>
    /\ gameFrame

\* handleCellSelect, lines 125-128 [172-175]
CellSelect ==
    /\ mounted
    /\ ~gameState.isPaused
    /\ ~gameState.isGameOver
    /\ ~isNewGameModalOpen
    /\ revision = "part_000" => showConfirmReset = NoReset
    /\ \E p \in Selectable : gameState' = [gameState EXCEPT !.selectedCell = p]
    /\ UNCHANGED <<isNewGameModalOpen, showConfirmReset, mounted>>
    /\ gameFrame

\* handleInput(num) from a key 1-9 or the number pad, lines 130-172 [177-221]
NumberInput ==
    /\ mounted
    /\ InputPasses(gameState)
    /\ \E num \in Keys :
          /\ Roomy(gameState, num)
          /\ gameState' = AfterInput(revision, gameState, num)
    /\ UNCHANGED <<isNewGameModalOpen, showConfirmReset, mounted>>
    /\ gameFrame

\* handleInput(null) from Backspace, Delete, 0 or the erase button, lines 195, 440 [248, 436]
Erase ==
    /\ mounted
    /\ InputPasses(gameState)
    /\ Roomy(gameState, NULL)
    /\ gameState' = AfterInput(revision, gameState, NULL)
    /\ UNCHANGED <<isNewGameModalOpen, showConfirmReset, mounted>>
    /\ gameFrame

\* hint, lines 186-190 [239-243]: handleInput of the solution's value
Hint ==
    /\ mounted
    /\ gameState.selectedCell # NoCell
    /\ ~gameState.isGameOver
    /\ InputPasses(gameState)
    /\ LET num == gameState.solution[gameState.selectedCell[1]][gameState.selectedCell[2]]
       IN /\ Roomy(gameState, num)
          /\ gameState' = AfterInput(revision, gameState, num)
    /\ UNCHANGED <<isNewGameModalOpen, showConfirmReset, mounted>>
    /\ gameFrame

\* the key n and the notes button, lines 196, 445 [249, 439]
ToggleNoteMode ==
    /\ mounted
    /\ gameState' = [gameState EXCEPT !.noteMode = ~@]
    /\ UNCHANGED <<isNewGameModalOpen, showConfirmReset, mounted>>
    /\ gameFrame

\* the pause button, line 458 [445], and the button of the pause overlay,
\* line 353 [396]
TogglePause ==
    /\ mounted
    /\ gameState' = [gameState EXCEPT !.isPaused = ~@]
    /\ UNCHANGED <<isNewGameModalOpen, showConfirmReset, mounted>>
    /\ gameFrame

\* undo, lines 174-184 [223-237], from its button and in part_000 from
\* Ctrl+Z [250]. In src/App.tsx the notes of the snapshot are not iterable,
\* new Set throws inside the updater and React unmounts App; part_000
\* catches the exception and keeps the state.
Undo ==
    /\ mounted
    /\ Len(gameState.history) > 0
    /\ IF Revivable(gameState.history[1])
       THEN /\ gameState' = AfterUndo(gameState)
            /\ UNCHANGED mounted
       ELSE /\ revision = "App.tsx"
            /\ mounted' = FALSE
            /\ UNCHANGED gameState
    /\ UNCHANGED <<isNewGameModalOpen, showConfirmReset>>
    /\ gameFrame

-----------------------------------------------------------------------------
(* Specifications *)

Idle ==
    /\ difficulty = "EASY"
    /\ solution = EmptyGrid
    /\ attempts = 0
    /\ cellsToRemove = 0
    /\ seedIdx = 0
    /\ trial = NoTrial
    /\ b = EmptyGrid
    /\ count = 0
    /\ stack = <<>>
    /\ phase = "ret"
    /\ ret = FALSE
    /\ rng = [x |-> 0, k |-> 80]
    /\ NoApp

\* generateSudoku(difficulty) has been called: line 570
Init ==
    /\ pc = "seed"
    /\ difficulty \in Difficulties
    /\ board = EmptyGrid
    /\ solution = EmptyGrid
    /\ puzzle = EmptyGrid
    /\ attempts = 0
    /\ cellsToRemove = 0
    /\ seedIdx = 0
    /\ trial = NoTrial
    /\ b = EmptyGrid
    /\ count = 0
    /\ stack = <<>>
    /\ phase = "ret"
    /\ ret = FALSE
    /\ rng \in {[x |-> s, k |-> 80] : s \in 0..MaxSeed}
    /\ NoApp

Next ==
    \/ SeedAccept
    \/ SeedReject
    \/ SeedSolve
    \/ SolvePlace
    \/ SolveFail
    \/ Derive
    \/ PickEmpty
    \/ PickFilled
    \/ CountPlace
    \/ CountBack
    \/ CountExhaust
    \/ TrialKeep
    \/ TrialRestore
    \/ Return
    \/ Resolve

Spec == Init /\ [][Next]_vars

\* the seeding and the solver call that follows it, over more seeds
MaxSolveSeed == 31

InitSeeding ==
    /\ pc = "seed"
    /\ difficulty \in Difficulties
    /\ board = EmptyGrid
    /\ solution = EmptyGrid
    /\ puzzle = EmptyGrid
    /\ attempts = 0
    /\ cellsToRemove = 0
    /\ seedIdx = 0
    /\ trial = NoTrial
    /\ b = EmptyGrid
    /\ count = 0
    /\ stack = <<>>
    /\ phase = "ret"
    /\ ret = FALSE
    /\ rng \in {[x |-> s, k |-> 80] : s \in 0..MaxSolveSeed}
    /\ NoApp

NextSeeding ==
    \/ SeedAccept
    \/ SeedReject
    \/ SeedSolve
    \/ SolvePlace
    \/ SolveFail
    \/ Derive

SpecSeeding == InitSeeding /\ [][NextSeeding]_vars

\* the seeding loops alone, every draw being followed by its test
NextSeedLoop ==
    \/ SeedAccept
    \/ SeedReject

SpecSeedLoop == InitSeeding /\ [][NextSeedLoop]_vars /\ WF_vars(NextSeedLoop)

\* a caller is about to call isValid on its grid; puzzle keeps the grid as given
InitValid ==
    /\ pc = "fn"
    /\ board \in ValidInputs
    /\ puzzle = board
    /\ Idle

SpecValid == InitValid /\ [][CallIsValid]_vars

\* a caller is about to call solveSudoku or countSolutions on its grid
InitSearch ==
    /\ pc = "fn"
    /\ board \in SearchInputs
    /\ puzzle = board
    /\ Idle

NextSearch ==
    \/ CallSolve
    \/ SolvePlace
    \/ SolveFail
    \/ CallCount
    \/ CountPlace
    \/ CountBack
    \/ CountExhaust

SpecSearch == InitSearch /\ [][NextSearch]_vars

\* the pairs generateSudoku hands to startNewGame in this model: the
\* solution Base and a puzzle that keeps all of its cells but one or two, so
\* that a whole game fits the bounds
GamePuzzles == {Cleared(Base, cs) : cs \in (SUBSET GameCells) \ {{}}}

\* generateSudoku has returned to the startNewGame of the mount effect
InitGame ==
    /\ pc = "done"
    /\ difficulty = "EASY"
    /\ board = Base
    /\ solution = Base
    /\ puzzle \in GamePuzzles
    /\ attempts = Cardinality({p \in GameCells : puzzle[p[1]][p[2]] = NULL})
    /\ cellsToRemove = attempts
    /\ seedIdx = 27
    /\ trial = NoTrial
    /\ b = EmptyGrid
    /\ count = 1
    /\ stack = <<>>
    /\ phase = "ret"
    /\ ret = TRUE
    /\ rng = [x |-> 0, k |-> 80]
    /\ gameState = NoGame
    /\ isNewGameModalOpen = FALSE
    /\ showConfirmReset = NoReset
    /\ revision \in Revisions
    /\ mounted = FALSE

NextGame ==
    \/ Mount
    \/ OpenModal
    \/ CloseModal
    \/ DifficultyClick
    \/ ZenClick
    \/ ConfirmReset
    \/ CancelReset
    \/ CellSelect
    \/ NumberInput
    \/ Erase
    \/ Hint
    \/ ToggleNoteMode
    \/ TogglePause
    \/ Undo

SpecGame == InitGame /\ [][NextGame]_vars

-----------------------------------------------------------------------------
(* The vocabulary of the claims: the rules of the game, stated on sets of  *)
(* cells and independently of the three functions above.                   *)

Cells == Idx \X Idx
At(g, p) == g[p[1]][p[2]]
RowOf(r) == {p \in Cells : p[1] = r}
ColOf(c) == {p \in Cells : p[2] = c}
BoxOf(r, c) == {p \in Cells : p[1] \div 3 = r \div 3 /\ p[2] \div 3 = c \div 3}
Units == {RowOf(r) : r \in Idx} \cup {ColOf(c) : c \in Idx}
            \cup {BoxOf(3 * i, 3 * j) : i \in 0..2, j \in 0..2}

EmptyCells(g) == {p \in Cells : At(g, p) = NULL}
Full(g) == EmptyCells(g) = {}

\* the filled cells break no row, column or box constraint
Consistent(g) ==
    \A u \in Units : \A p \in u, q \in u :
        (p # q /\ At(g, p) # NULL) => At(g, p) # At(g, q)

\* no empty cell, and every row, column and box holds each digit exactly once
Solved(g) == \A u \in Units : {At(g, p) : p \in u} = Digits

\* h holds every value that g holds
Keeps(g, h) == \A p \in Cells : At(g, p) # NULL => At(h, p) = At(g, p)

\* the values that a cell's row, column and box hold
Seen(g, p) == {At(g, q) : q \in RowOf(p[1]) \cup ColOf(p[2]) \cup BoxOf(p[1], p[2])}

\* all ways of filling the empty cells of g, cell k after cell k - 1, with
\* values that the cell's row, column and box do not hold yet; the grids of
\* F have the same cells filled
Put(g, k, v) == [g EXCEPT ![k \div 9][k % 9] = v]
Step(F, k) ==
    UNION { {Put(g, k, v) : v \in Digits \ Seen(g, <<k \div 9, k % 9>>)} : g \in F }
RECURSIVE Fill(_, _)
Fill(F, k) ==
    IF k = 81 \/ F = {} THEN F
    ELSE IF \A g \in F : g[k \div 9][k % 9] # NULL THEN Fill(F, k + 1)
    ELSE Fill(Step(F, k), k + 1)
Fillings(g) == Fill({g}, 0)

\* the valid completions of g
Completions(g) == {h \in Fillings(g) : Solved(h)}

-----------------------------------------------------------------------------
(* Claims about isValid, solveSudoku and countSolutions *)

InRow(g, row, num) == \E c \in Idx : g[row][c] = num
InCol(g, col, num) == \E r \in Idx : g[r][col] = num
InBoxAt(g, r0, c0, num) == \E i \in 0..2, j \in 0..2 : g[r0 + i][c0 + j] = num

\* C1: isValid(grid, row, col, value) returns false exactly when value is in
\* the row, in the column or in the box with origin (row - row % 3,
\* col - col % 3), each of the three being enough, and true otherwise.
C1_IsValidContract ==
    pc = "fnvalid" =>
        LET inRow == InRow(board, trial.r, trial.temp)
            inCol == InCol(board, trial.c, trial.temp)
            inBox == InBoxAt(board, trial.r - (trial.r % 3), trial.c - (trial.c % 3),
                             trial.temp)
        IN /\ inRow => ~ret
           /\ inCol => ~ret
           /\ inBox => ~ret
           /\ ~(inRow \/ inCol \/ inBox) => ret

\* a call rejected because of the box alone
C1_Witness ==
    /\ pc = "fnvalid"
    /\ ~ret
    /\ ~InRow(board, trial.r, trial.temp)
    /\ ~InCol(board, trial.c, trial.temp)
    /\ InBoxAt(board, trial.r - (trial.r % 3), trial.c - (trial.c % 3), trial.temp)

SolveReturned == pc = "fnsolve" /\ phase = "ret"

\* C2: on a grid whose filled cells break no constraint, solveSudoku returns
\* true exactly when the grid has a valid completion, and then leaves a full
\* valid grid that keeps every value of the input.
C2_SolveContract ==
    (SolveReturned /\ Consistent(puzzle)) =>
        /\ ret <=> Completions(puzzle) # {}
        /\ ret => (Full(board) /\ Solved(board) /\ Keeps(puzzle, board))

\* a call that succeeded after taking back a first choice: the grid it leaves
\* is not the one the smallest candidates lead to
C2_Witness ==
    /\ SolveReturned
    /\ Consistent(puzzle)
    /\ ret
    /\ Cardinality(EmptyCells(puzzle)) >= 5
    /\ board # Base

CountReturned == pc = "fncount" /\ phase = "ret"

-----------------------------------------------------------------------------
(* Claims about generateSudoku *)

Returned == pc \in {"done", "resolve"}

\* C4: the solution grid of a returned pair has no empty cell, and each of
\* its rows, columns and boxes holds every digit 1..9 exactly once.
C4_SolutionValid == Returned => (Full(solution) /\ Solved(solution))

\* generateSudoku has returned a pair
C4_Witness == pc = "done" /\ Full(solution) /\ ~Full(puzzle)

\* C5: the solver call that follows the seeding of the three diagonal boxes
\* returns true, whatever the seeding.
C5_SeedCompletable == (pc = "solve" /\ phase = "ret") => ret

\* the solver has returned true from its call on a fully seeded grid
C5_Witness ==
    /\ pc = "solve"
    /\ phase = "ret"
    /\ ret
    /\ seedIdx = 27
    /\ \A i \in 0..2 : {At(board, p) : p \in BoxOf(3 * i, 3 * i)} = Digits

InRemoval == pc \in {"remove", "count"}

\* C6: during the removal loop and at return, every non-empty cell of the
\* puzzle holds the value of the same cell of the solution.
C6_PuzzleWithinSolution == (InRemoval \/ Returned) => Keeps(puzzle, solution)

\* the loop has just put a value back after a trial that was not unique
C6_Witness ==
    /\ pc = "remove"
    /\ attempts >= 1
    /\ count = 2
    /\ puzzle[trial.r][trial.c] = trial.temp
    /\ trial.temp # NULL

\* C7: after every completed iteration of the removal loop, and at return,
\* the puzzle has exactly one valid completion, the solution grid.
C7_UniqueCompletion ==
    pc \in {"remove", "done"} => Completions(puzzle) = {solution}

\* an iteration has just kept a cell cleared, the counter having reported 1
C7_Witness ==
    /\ pc = "remove"
    /\ attempts >= 30
    /\ count = 1
    /\ puzzle[trial.r][trial.c] = NULL
    /\ trial.temp # NULL

\* C8: solveSudoku on a copy of a returned puzzle returns true and leaves the
\* copy equal to the returned solution.
C8_ResolveGivesSolution ==
    (pc = "resolve" /\ phase = "ret") => (ret /\ board = solution)

\* the solver has returned from a call on a copy of a returned puzzle
C8_Witness ==
    /\ pc = "resolve"
    /\ phase = "ret"
    /\ ret
    /\ ~Full(puzzle)

FilledCount(g) == Cardinality(Cells \ EmptyCells(g))
ExpectedFilled(d) ==
    CASE d = "EASY" -> 46
      [] d = "MEDIUM" -> 36
      [] d = "HARD" -> 26
      [] d = "EXPERT" -> 21

Without(g, p) == [g EXCEPT ![p[1]][p[2]] = NULL]
Saturated(g) ==
    \A p \in Cells \ EmptyCells(g) : Cardinality(Completions(Without(g, p))) # 1

\* C10: the removal loop reaches no saturated puzzle before the target count;
\* stated for the Expert count of 60 at the point where 56 cells are cleared.
C10_NotSaturatedBeforeTarget ==
    (pc = "remove" /\ difficulty = "EXPERT" /\ attempts = 56 /\ attempts < cellsToRemove)
        => ~Saturated(puzzle)

\* C11: while countSolutions runs in a removal trial, and when it has
\* returned, the puzzle keeps the cells it had when the count was started:
\* the trial cell empty and every other cell as before.
C11_CountLeavesPuzzle ==
    [][(pc = "count" /\ pc' = "count")
          => (puzzle' = puzzle /\ puzzle[trial.r][trial.c] = NULL)]_vars

\* the counter has placed values in its grid and the puzzle does not hold them
C11_Witness ==
    /\ pc = "count"
    /\ phase = "back"
    /\ count = 1
    /\ Full(b)
    /\ ~Full(puzzle)
    /\ Cardinality(EmptyCells(puzzle)) >= 30

\* C12: once the solver has completed the solution grid no step changes it,
\* so the solution returned is the grid the solver produced.
C12_SolutionUntouched ==
    /\ [][(pc \in {"remove", "count", "done", "resolve"}) => (solution' = solution)]_vars
    /\ [](pc \in {"remove", "count", "done"} => solution = board)

\* a pair has been returned after cells were cleared, put back and counted
C12_Witness ==
    /\ pc = "done"
    /\ count = 1
    /\ attempts = cellsToRemove
    /\ solution = board
    /\ puzzle # solution

\* C13: on a fully filled valid grid solveSudoku returns true and leaves
\* every cell unchanged.
C13_SolveFullGrid ==
    (SolveReturned /\ Full(puzzle) /\ Solved(puzzle)) => (ret /\ board = puzzle)

\* the solver has returned from a call on a full valid grid other than Base
C13_Witness ==
    /\ SolveReturned
    /\ Full(puzzle)
    /\ Solved(puzzle)
    /\ puzzle # Base
    /\ ret

\* C15: whenever solveSudoku finds no empty cell and reports success, on any
\* input grid, the grid is full and every row, column and box holds each of
\* 1..9 exactly once.
C15_SuccessMeansValid ==
    (SolveReturned /\ ret) => (Full(board) /\ Solved(board))

\* the activations below the top one: each holds the value it has placed
Ancestors == 1..(Len(stack) - 1)
PlacedBy(r, c) == {i \in Ancestors : stack[i].row = r /\ stack[i].col = c}
AsCalled ==
    [r \in Idx |-> [c \in Idx |->
        IF PlacedBy(r, c) # {} THEN stack[CHOOSE i \in PlacedBy(r, c) : TRUE].num
        ELSE puzzle[r][c]]]
TopReturnsFalse ==
    /\ phase = "loop"
    /\ NextValid(board, Top.row, Top.col, Top.num) > 9

\* C16: when an activation of solveSudoku returns false, at any depth, the
\* grid is the grid that activation was called with: the input with the
\* placements of the activations above it, and nothing else.
C16_FalseRestoresGrid ==
    pc = "fnsolve" =>
        /\ (phase = "ret" /\ ~ret) => board = puzzle
        /\ TopReturnsFalse => board = AsCalled

\* an inner activation returns false after a value it had placed led nowhere
C16_Witness ==
    /\ pc = "fnsolve"
    /\ TopReturnsFalse
    /\ Len(stack) >= 2
    /\ \E n \in 1..(Top.num - 1) : isValid(board, Top.row, Top.col, n)

\* C17: once the counter of countSolutions is 2 no value is placed in any
\* cell any more, the recursion only unwinds, and the count returned is
\* exactly 2 however many completions the grid has.
C17_StopsAtTwo ==
    /\ [][(pc \in CountPcs /\ count >= 2)
            => /\ count' = count
               /\ \A p \in Cells : At(b', p) # At(b, p) => At(b', p) = NULL]_vars
    /\ [](pc \in CountPcs => count <= 2)

\* the count of a grid with more than two valid completions has returned 2
C17_Witness ==
    /\ CountReturned
    /\ count = 2
    /\ Cardinality(Completions(puzzle)) >= 3

\* g comes before h, or is h, when the two are read cell by cell in row-major order
RowMajorLeq(g, h) ==
    \/ g = h
    \/ \E k \in 0..80 :
          /\ g[k \div 9][k % 9] < h[k \div 9][k % 9]
          /\ \A j \in 0..(k - 1) : g[j \div 9][j % 9] = h[j \div 9][j % 9]

\* C18: every activation of solveSudoku works on the first empty cell of the
\* grid in row-major order and places a value only after every smaller value
\* from 1 up has been tried, so on an input with a valid completion the call
\* returns true and leaves the smallest completion in row-major order.
C18_SmallestCompletion ==
    /\ [](pc = "fnsolve" /\ phase = "loop" /\ Len(stack) >= 1 =>
             /\ board[Top.row][Top.col] = NULL
             /\ \A k \in 0..(9 * Top.row + Top.col - 1) : board[k \div 9][k % 9] # NULL)
    /\ [][(pc = "fnsolve" /\ \E p \in Cells : At(board, p) = NULL /\ At(board', p) # NULL)
            => LET v == board'[Top.row][Top.col]
               IN /\ board' = [board EXCEPT ![Top.row][Top.col] = v]
                  /\ v \in Top.num..9
                  /\ isValid(board, Top.row, Top.col, v)
                  /\ \A m \in Top.num..(v - 1) : ~isValid(board, Top.row, Top.col, m)
                  /\ Len(stack') > Len(stack) => stack'[Len(stack')].num = 1]_vars
    /\ [][(pc = "fnsolve" /\ \E p \in Cells : At(board, p) # NULL /\ At(board', p) = NULL)
            => LET f == stack'[Len(stack')]
               IN /\ board' = [board EXCEPT ![f.row][f.col] = NULL]
                  /\ f.num = board[f.row][f.col] + 1]_vars
    /\ []((SolveReturned /\ Completions(puzzle) # {}) =>
             /\ ret
             /\ board \in Completions(puzzle)
             /\ \A h \in Completions(puzzle) : RowMajorLeq(board, h))

\* solveSudoku has returned on an input with several valid completions
C18_Witness ==
    /\ SolveReturned
    /\ ret
    /\ Cardinality(Completions(puzzle)) >= 2
    /\ Cardinality(EmptyCells(puzzle)) >= 18

\* C19: at every test of the removal loop attempts is the number of empty
\* cells of the puzzle, and while a cleared cell is on trial it is the number
\* of the other empty cells; attempts grows, by one, in exactly the steps that
\* keep a cleared cell, and the loop is left exactly when attempts is
\* cellsToRemove.
C19_CounterIsEmptyCells ==
    /\ [](pc = "remove" => attempts = Cardinality(EmptyCells(puzzle)))
    /\ [](pc = "count" =>
             /\ puzzle[trial.r][trial.c] = NULL
             /\ attempts = Cardinality(EmptyCells(puzzle) \ {<<trial.r, trial.c>>}))
    /\ [](pc = "done" => attempts = cellsToRemove /\ attempts = Cardinality(EmptyCells(puzzle)))
    /\ [][InRemoval =>
            /\ attempts' \in {attempts, attempts + 1}
            /\ attempts' = attempts + 1
                  <=> (pc = "count" /\ pc' = "remove" /\ count = 1 /\ puzzle' = puzzle)
            /\ (pc = "count" /\ pc' = "remove" /\ count # 1) => attempts' = attempts
            /\ pc' = "done" <=> (pc = "remove" /\ attempts = cellsToRemove)]_vars

\* the loop is tested again after one trial was rejected and others were kept
C19_Witness ==
    /\ pc = "remove"
    /\ count = 2
    /\ attempts >= 30
    /\ attempts < cellsToRemove
    /\ puzzle[trial.r][trial.c] = trial.temp

\* the puzzle as it was when the iteration on trial began
BeforeTrial == [puzzle EXCEPT ![trial.r][trial.c] = trial.temp]

\* C20: an iteration of the removal loop whose count is not 1 ends in the loop
\* with the puzzle it began with: the pick clears one filled cell and records
\* its value, the count changes neither the puzzle nor the record, and the
\* rejection writes the recorded value back and changes nothing else of the
\* result; a pick of an empty cell changes nothing.
C20_RejectedTrialRestores ==
    /\ [][(pc = "remove" /\ pc' = "count")
            => /\ trial'.temp = puzzle[trial'.r][trial'.c]
               /\ trial'.temp # NULL
               /\ puzzle' = [puzzle EXCEPT ![trial'.r][trial'.c] = NULL]]_vars
    /\ [][(pc = "count" /\ pc' = "count") => (puzzle' = puzzle /\ trial' = trial)]_vars
    /\ [][(pc = "count" /\ count # 1 /\ pc' # "count")
            => /\ pc' = "remove"
               /\ puzzle' = BeforeTrial
               /\ <<solution, attempts, cellsToRemove>>' = <<solution, attempts, cellsToRemove>>]_vars
    /\ []((pc = "remove" /\ count # 1 /\ trial # NoTrial)
            => /\ puzzle[trial.r][trial.c] = trial.temp
               /\ trial.temp = solution[trial.r][trial.c])
    /\ [][(pc = "remove" /\ pc' = "remove") => puzzle' = puzzle]_vars

\* a trial was rejected with two completions found and the loop goes on with
\* the cell filled again
C20_Witness ==
    /\ pc = "remove"
    /\ count = 2
    /\ trial.temp # NULL
    /\ puzzle[trial.r][trial.c] = solution[trial.r][trial.c]
    /\ b[trial.r][trial.c] = NULL
    /\ ~Full(puzzle)

\* the puzzle with the cell on trial, if any, holding its value
Kept == IF pc = "count" THEN BeforeTrial ELSE puzzle

\* clearing the filled cell p of g leaves exactly one completion; a grid is
\* saturated exactly when none of its filled cells is clearable
Clearable(g, p) == At(g, p) # NULL /\ Cardinality(Completions(Without(g, p))) = 1

\* C21: the removal loop is left only with attempts at cellsToRemove, and a
\* step taken below the target that changes the counter or the puzzle (the
\* cell on trial counted as filled) is taken from a puzzle that is not
\* saturated; so from a saturated puzzle below the target generateSudoku
\* never returns and counter and puzzle stay as they are.
C21_SaturatedNeverReturns ==
    /\ [](pc = "done" => attempts >= cellsToRemove)
    /\ [][(InRemoval /\ pc' \notin {"remove", "count"})
            => (pc' = "done" /\ attempts >= cellsToRemove)]_vars
    /\ [][(InRemoval /\ attempts < cellsToRemove /\ (attempts' # attempts \/ Kept' # Kept))
            => (Clearable(Kept, <<trial.r, trial.c>>) \/ ~Saturated(Kept))]_vars

\* a trial was rejected on the saturated puzzle with 56 of 60 cells cleared
C21_Witness ==
    /\ pc = "remove"
    /\ count = 2
    /\ cellsToRemove = 60
    /\ attempts = 56
    /\ Saturated(puzzle)

\* the cells of the three diagonal boxes, and the values a box holds
DiagonalCells == {p \in Cells : p[1] \div 3 = p[2] \div 3}
SeedCell(n) == <<SeedRow(n), SeedCol(n)>>
BoxValues(g, p) == {At(g, q) : q \in BoxOf(p[1], p[2])} \ {NULL}

\* C22: during the seeding the filled cells are the seeded cells so far, all
\* in the diagonal boxes and without a repeat inside a box; the values
\* isValid accepts for the cell being seeded are exactly the digits its own
\* box does not hold yet; when the seeding has finished each diagonal box
\* holds 1..9 and every other cell is empty.
C22_SeedingFillsDiagonal ==
    pc = "seed" =>
        /\ \A p \in Cells \ DiagonalCells : At(board, p) = NULL
        /\ \A n \in 0..26 : At(board, SeedCell(n)) # NULL <=> n < seedIdx
        /\ \A m, n \in 0..(seedIdx - 1) :
              (m # n /\ m \div 9 = n \div 9) => At(board, SeedCell(m)) # At(board, SeedCell(n))
        /\ seedIdx < 27 =>
              \A v \in Digits :
                  isValid(board, SeedRow(seedIdx), SeedCol(seedIdx), v)
                      <=> v \notin BoxValues(board, SeedCell(seedIdx))
        /\ seedIdx = 27 =>
              \A p \in DiagonalCells : BoxValues(board, p) = Digits

\* the seeding has finished: 27 cells are filled and the second box is not
\* a copy of the first
C22_Witness ==
    /\ pc = "seed"
    /\ seedIdx = 27
    /\ Cardinality(EmptyCells(board)) = 54
    /\ \E k \in 0..8 : At(board, SeedCell(k)) # At(board, SeedCell(9 + k))

\* C23: while a cell of a diagonal box is being seeded at least one value of
\* 1..9 passes isValid, and the seeding reaches the point where all 27 cells
\* are filled.
C23_SeedingExits ==
    /\ []((pc = "seed" /\ seedIdx < 27) =>
             \E v \in Digits : isValid(board, SeedRow(seedIdx), SeedCol(seedIdx), v))
    /\ <>(pc = "seed" /\ seedIdx = 27 /\ \A n \in 0..26 : At(board, SeedCell(n)) # NULL)

\* the last cell of the last box is being seeded, one value is left for it
\* and the next draw is another one
C23_Witness ==
    /\ pc = "seed"
    /\ seedIdx = 26
    /\ Cardinality({v \in Digits : isValid(board, SeedRow(26), SeedCol(26), v)}) = 1
    /\ ~isValid(board, SeedRow(26), SeedCol(26), Floor9(NextRnd(rng)) + 1)

\* C24: when countSolutions returns, on the normal path or after the count
\* has reached 2, the grid it was given holds what it held at the call.
C24_CountRestoresGrid == (pc \in CountPcs /\ phase = "ret") => b = puzzle

\* the count has returned early on a grid with 18 empty cells, and has
\* returned after trying every value on another
C24_Witness ==
    /\ CountReturned
    /\ b = puzzle
    /\ \/ count = 2 /\ Cardinality(EmptyCells(b)) >= 18
       \/ count = 0 /\ Cardinality(EmptyCells(b)) >= 2

-----------------------------------------------------------------------------
(* Claims about the game component *)

InGame == gameState # NoGame

\* C25: in every state of a game isWon is true only if every cell of the
\* board holds the value of the same cell of the solution.
C25_WonMeansComplete == (InGame /\ gameState.isWon) => isComplete(gameState)

\* a step of handleInput that passed both returns: one more entry in history
InputStep ==
    /\ InGame /\ InGame'
    /\ Len(gameState'.history) = Len(gameState.history) + 1

\* a step in which undo ran on a non-empty history: either the updater threw
\* and the component is gone, or the same game goes on with its first
\* history entry dropped
UndoStep ==
    /\ mounted /\ InGame /\ Len(gameState.history) > 0
    /\ \/ ~mounted'
       \/ /\ InGame'
          /\ gameState'.selectedCell = gameState.selectedCell
          /\ Len(gameState'.history) = Len(gameState.history) - 1

\* C26: an undo right after a number input restores the board as it was
\* before the input. The input puts at the head of history an entry from
\* which the board before the input is rebuilt, value, fixed, error and notes
\* of every cell; the undo completes, the board after it is the one rebuilt
\* from the head of history, and history has lost that head.
C26_UndoRestoresInput ==
    /\ [][InputStep =>
            /\ Revivable(gameState'.history[1])
            /\ Revived(gameState'.history[1]) = gameState.board]_vars
    /\ [][UndoStep =>
            /\ mounted'
            /\ gameState'.board = Revived(gameState.history[1])
            /\ gameState'.history = Tail(gameState.history)]_vars

\* C27: in every state of a game a cell that is non-empty in the generated
\* puzzle is marked fixed, a cell that is empty in it is not, and every fixed
\* cell holds its puzzle value, which is the value of the solution, whatever
\* inputs, erasures, notes, hints and undos were made.
C27_FixedCellsKeepValue ==
    InGame =>
        \A p \in Cells :
            LET cell == gameState.board[p[1]][p[2]]
            IN /\ cell.fixed <=> At(puzzle, p) # NULL
               /\ cell.fixed =>
                    /\ cell.value = At(puzzle, p)
                    /\ cell.value = At(gameState.solution, p)

\* entries were made, one of them wrong, and a given cell is selected
C27_Witness ==
    /\ InGame
    /\ gameState.selectedCell = GivenCell
    /\ gameState.board[GivenCell[1]][GivenCell[2]].fixed
    /\ Len(gameState.history) > 0
    /\ gameState.errors > 0

\* a step inside one game: startNewGame, which clears the selection, did not run
SameGame ==
    /\ InGame /\ InGame'
    /\ ~(gameState.selectedCell # NoCell /\ gameState'.selectedCell = NoCell)

\* a step of handleInput outside note mode that left in the selected cell a
\* value other than the solution's
WrongEntry ==
    /\ InputStep
    /\ ~gameState.noteMode
    /\ LET r == gameState.selectedCell[1]
           c == gameState.selectedCell[2]
       IN /\ gameState'.board[r][c].value # NULL
          /\ gameState'.board[r][c].value # gameState.solution[r][c]

\* C28: within one game a wrong value entry made outside note mode raises
\* errors by exactly one and every other step leaves errors as it is, so
\* errors never decreases; when errors has reached maxErrors the game is over
\* and no number input is taken any more.
C28_ErrorsCountWrongEntries ==
    /\ [][SameGame =>
            IF WrongEntry
            THEN gameState'.errors = gameState.errors + 1
            ELSE gameState'.errors = gameState.errors]_vars
    /\ []((InGame /\ gameState.errors >= gameState.maxErrors) => gameState.isGameOver)
    /\ [][(InGame /\ gameState.errors >= gameState.maxErrors) => ~InputStep]_vars

\* the third wrong entry of a game was made and ended it
C28_Witness ==
    /\ InGame
    /\ gameState.errors = gameState.maxErrors
    /\ gameState.isGameOver
    /\ ~gameState.isWon
    /\ Len(gameState.history) > 0

====
